---- MODULE Spec2Model ----
(***************************************************************************)
(* Bill recorder: the transaction store (App), the extraction and import   *)
(* pipelines, the trash, the swipe-to-delete row and the month carousel.   *)
(*                                                                         *)
(* Representation.  A JavaScript string is a sequence of tokens; a token   *)
(* stands for a run of characters: "a", "b", "x" are single letters, "|"   *)
(* is the vertical bar, " " a blank, "D1".."D3" are three well-formed      *)
(* 16-character minutes "YYYY-MM-DDTHH:mm" in chronological order and      *)
(* ":00" is a seconds suffix.  Amounts are counted in hundredths: 1000 is  *)
(* 10 and 1001 is 10.01.  Wall-clock time is counted in days.              *)
(***************************************************************************)
EXTENDS Integers, Sequences, FiniteSets, TLC

VARIABLES
    transactions,   \* App state: Transaction[]
    trash,          \* App state: DeletedItem[]
    lsTrash,        \* localStorage['trash']
    lsTransactions, \* localStorage['transactions']
    nextId,         \* the next fresh id (Date.now() + Math.random())
    now,            \* Date.now(), in days
    ops,            \* the number of store operations handled so far
    op,             \* the last store operation
    row,            \* one SwipeToDelete instance: its refs, state and timers
    car,            \* the CategoryChart carousel: month, refs, state and timers
    amountStr,      \* TransactionFormModal state: the keypad's buffer
    upload,         \* BillUploader: the files selected and their analysis
    listView        \* TransactionList: the query and the selection

vars ==
    <<transactions, trash, lsTrash, lsTransactions, nextId, now, ops, op, row, car,
      amountStr, upload, listView>>

storeVars == <<transactions, trash, lsTrash, lsTransactions, nextId, now, ops, op>>

----------------------------------------------------------------------------
(* Bounds *)

MaxId == 3          \* ids handed out in one run
MaxClock == 1       \* days the clock may advance
MaxOps == 3         \* store operations in one run
MaxAnimTimers == 2  \* snapTo timers pending at one time
MaxClassOps == 2    \* operations in one run of the category checks
MaxLen == 5         \* characters the keypad may put in its buffer
MaxFiles == 2       \* files selected for one submission

----------------------------------------------------------------------------
(* JavaScript numbers *)

Infinity == 99999
NaN == -99999

Abs(x) == IF x = NaN THEN NaN ELSE IF x < 0 THEN 0 - x ELSE x

IsFinite(x) == x # NaN /\ x # Infinity /\ x # 0 - Infinity

\* `${amount}`
NumToString(x) ==
    IF x = NaN THEN "NaN"
    ELSE IF x = Infinity THEN "Infinity"
    ELSE IF x = 0 - Infinity THEN "-Infinity"
    ELSE ToString(x)

\* Number(it.amount): a number is itself, a numeric string its value, any other
\* string NaN (the raw value carries v = NaN then)
Number(raw) == raw.v

TypeofNumber(raw) == raw.t = "number"

----------------------------------------------------------------------------
(* JavaScript strings *)

DateTokens == <<"D1", "D2", "D3">>

IsDateToken(tok) == \E k \in 1..Len(DateTokens) : DateTokens[k] = tok

TokenWidth(tok) == IF IsDateToken(tok) THEN 16 ELSE IF tok = ":00" THEN 3 ELSE 1

RECURSIVE StrWidth(_)
StrWidth(s) == IF s = <<>> THEN 0 ELSE TokenWidth(Head(s)) + StrWidth(Tail(s))

\* s.slice(0, 16); no string of the model has a token across the 16th character
RECURSIVE Slice16From(_, _)
Slice16From(s, room) ==
    IF s = <<>> \/ TokenWidth(Head(s)) > room THEN <<>>
    ELSE <<Head(s)>> \o Slice16From(Tail(s), room - TokenWidth(Head(s)))

Slice16(s) == Slice16From(s, 16)

RECURSIVE TrimStart(_)
TrimStart(s) == IF s # <<>> /\ Head(s) = " " THEN TrimStart(Tail(s)) ELSE s

RECURSIVE TrimEnd(_)
TrimEnd(s) ==
    IF s # <<>> /\ s[Len(s)] = " " THEN TrimEnd(SubSeq(s, 1, Len(s) - 1)) ELSE s

\* s.trim()
Trim(s) == TrimEnd(TrimStart(s))

\* new Date(date).getTime(): the minute's position in time, NaN for any other text
getTime(date) ==
    IF Len(date) \in {1, 2} /\ IsDateToken(date[1]) /\ (Len(date) = 2 => date[2] = ":00")
    THEN CHOOSE k \in 1..Len(DateTokens) : DateTokens[k] = date[1]
    ELSE NaN

----------------------------------------------------------------------------
(* Categories *)

Category ==
    {"Food", "Transport", "Shopping", "Entertainment", "Home", "Medical",
     "Education", "Transfer", "Other"}

CATEGORIES ==
    {"Food", "Transport", "Shopping", "Entertainment", "Home", "Medical",
     "Transfer", "Other"}

----------------------------------------------------------------------------
(* Sequences *)

RECURSIVE MapSeq(_, _)
\* s.map(F)
MapSeq(F(_), s) == IF s = <<>> THEN <<>> ELSE <<F(Head(s))>> \o MapSeq(F, Tail(s))

----------------------------------------------------------------------------
(* The dedup key and the sort *)

\* `${t.name}|${t.date}|${t.amount}`
Key(t) == t.name \o <<"|">> \o t.date \o <<"|", NumToString(t.amount)>>

existingKeys(store) == {Key(store[i]) : i \in 1..Len(store)}

Times(list) == {getTime(list[i].date) : i \in 1..Len(list)}

\* x put behind every record of the sorted list that is not earlier than x
InsertDesc(sorted, x) ==
    LET k == Cardinality({i \in 1..Len(sorted) :
                             getTime(sorted[i].date) >= getTime(x.date)})
    IN  SubSeq(sorted, 1, k) \o <<x>> \o SubSeq(sorted, k + 1, Len(sorted))

RECURSIVE SortDesc(_)
\* the stable sort by getTime descending, all times being numbers
SortDesc(list) ==
    IF list = <<>> THEN <<>>
    ELSE InsertDesc(SortDesc(SubSeq(list, 1, Len(list) - 1)), list[Len(list)])

Perms(list) ==
    {[i \in 1..Len(list) |-> list[p[i]]] : p \in Permutations(1..Len(list))}

\* list.sort((a, b) => new Date(b.date).getTime() - new Date(a.date).getTime()):
\* the comparator yields NaN, read as 0, when a date is no date; it is then
\* consistent only if the other dates are all equal, and the order an inconsistent
\* comparator gives is implementation-defined
SortOutcomes(list) ==
    IF NaN \notin Times(list) THEN {SortDesc(list)}
    ELSE IF Cardinality(Times(list) \ {NaN}) <= 1 THEN {list}
    ELSE Perms(list)

----------------------------------------------------------------------------
(* Merchant heuristics (geminiService.ts).  A name matches a family when it   *)
(* holds one of the family's words; one word per family is kept.              *)

Contains(name, words) == \E i \in 1..Len(name) : name[i] \in words

isConvenienceStore(name) == Contains(name, {"lawson"})

isSupermarket(name) == Contains(name, {"market"})

isShoppingCenter(name) == Contains(name, {"mall"})

isDepartmentStore(name) == Contains(name, {"sogo"})

isPharmacy(name) == Contains(name, {"pharmacy"})

\* a chain that tries the Food matchers before the pharmacy matcher
overrideCategory_FoodFirst(item) ==
    IF isConvenienceStore(item.name) \/ isSupermarket(item.name)
       \/ isDepartmentStore(item.name) THEN "Food"
    ELSE IF isPharmacy(item.name) THEN "Medical"
    ELSE IF isShoppingCenter(item.name) THEN "Shopping"
    ELSE item.category

\* the override chain of analyzeBill
overrideCategory(item) ==
    IF isPharmacy(item.name) THEN "Medical"
    ELSE IF isConvenienceStore(item.name) \/ isSupermarket(item.name)
            \/ isDepartmentStore(item.name) THEN "Food"
    ELSE IF isShoppingCenter(item.name) THEN "Shopping"
    ELSE item.category

----------------------------------------------------------------------------
(* Extraction: analyzeBill *)

analyzeValid(item) ==
    /\ item.name # <<>>
    /\ item.date # <<>>
    /\ TypeofNumber(item.amount)
    /\ overrideCategory(item) # "undefined"
    /\ overrideCategory(item) \in CATEGORIES

analyzeItem(item) ==
    [name |-> item.name, date |-> item.date,
     amount |-> Abs(Number(item.amount)), category |-> overrideCategory(item)]

\* validTransactions
analyzeBill(data) == MapSeq(analyzeItem, SelectSeq(data, analyzeValid))

analyzeThrows(data) == Len(analyzeBill(data)) = 0 /\ Len(data) > 0

----------------------------------------------------------------------------
(* Store handlers (App) *)

\* The field addedAt of a record tells whether the record carries the
\* timestamp of its addition.

\* an id generator that gives every record of a batch the same id
WithIds_Same(cands, first) ==
    [k \in 1..Len(cands) |->
        [id |-> first, name |-> cands[k].name, date |-> cands[k].date,
         amount |-> cands[k].amount, category |-> cands[k].category,
         addedAt |-> TRUE]]

RECURSIVE WithIds(_, _)
\* each candidate with a fresh id
WithIds(cands, first) ==
    IF cands = <<>> THEN <<>>
    ELSE <<[id |-> first, name |-> Head(cands).name, date |-> Head(cands).date,
            amount |-> Head(cands).amount, category |-> Head(cands).category,
            addedAt |-> TRUE]>>
         \o WithIds(Tail(cands), first + 1)

\* a filter that keeps every candidate
uniqueAgainst_KeepAll(store, cands) == cands

\* the candidates that pass the filter against existingKeys
uniqueAgainst(store, cands) ==
    LET IsNew(t) == Key(t) \notin existingKeys(store)
    IN  SelectSeq(cands, IsNew)

\* handleAddTransactions: the records added and the lists the sort may give
handleAddTransactions(store, newTransactions, first) ==
    LET uniqueNewTransactions == uniqueAgainst(store, newTransactions)
        transactionsWithIds == WithIds(uniqueNewTransactions, first)
    IN  IF Len(uniqueNewTransactions) > 0
        THEN [added |-> transactionsWithIds,
              lists |-> SortOutcomes(transactionsWithIds \o store)]
        ELSE [added |-> <<>>, lists |-> {store}]

\* handleAddTransactions called through the closure of an earlier render:
\* existingKeys is built from the transactions of that render, the updater of
\* setTransactions runs on the transactions of now
handleAddTransactionsOf(closure, prev, newTransactions, first) ==
    LET uniqueNewTransactions == uniqueAgainst(closure, newTransactions)
        transactionsWithIds == WithIds(uniqueNewTransactions, first)
    IN  IF Len(uniqueNewTransactions) > 0
        THEN [added |-> transactionsWithIds,
              lists |-> SortOutcomes(transactionsWithIds \o prev)]
        ELSE [added |-> <<>>, lists |-> {prev}]

normalizeItem(it) ==
    [name |-> Trim(it.name), date |-> Slice16(it.date),
     amount |-> Abs(Number(it.amount)), category |-> it.category]

normalizeKeeps(it) ==
    LET n == normalizeItem(it)
    IN  ~(n.name = <<>> \/ n.date = <<>> \/ ~IsFinite(n.amount) \/ n.amount <= 0)

normalized(items) == MapSeq(normalizeItem, SelectSeq(items, normalizeKeeps))

\* handleImportTransactions
handleImportTransactions(store, items, first) ==
    LET unique == uniqueAgainst(store, normalized(items))
        withIds == WithIds(unique, first)
    IN  IF Len(unique) = 0
        THEN [added |-> <<>>, lists |-> {store}]
        ELSE [added |-> withIds, lists |-> SortOutcomes(withIds \o store)]

\* TransactionFormModal.validate: no error is found
validate(formData) ==
    /\ Trim(formData.name) # <<>>
    /\ ~(formData.amount <= 0)
    /\ formData.date # <<>>

\* handleSaveTransaction, the branch without an id
saveNew(store, data, id) ==
    SortOutcomes(<<[id |-> id, name |-> data.name, date |-> data.date,
                    amount |-> data.amount, category |-> data.category,
                    addedAt |-> TRUE]>> \o store)

\* TransactionFormModal.attemptSave on the record being edited: the fields of
\* the form and the id of the record, nothing else
editPayload(formData, id) ==
    [id |-> id, name |-> formData.name, date |-> formData.date,
     amount |-> formData.amount, category |-> formData.category,
     addedAt |-> FALSE]

\* handleSaveTransaction, the branch with an id: prev.map, no sort
saveEdit(store, data) ==
    LET Put(t) == IF t.id = data.id THEN data ELSE t
    IN  MapSeq(Put, store)

\* handleBulkChangeCategory
bulkChangeCategory(store, ids, category) ==
    LET Put(t) == IF t.id \in ids THEN [t EXCEPT !.category = category] ELSE t
    IN  MapSeq(Put, store)

\* a filter that removes nothing
withoutIds_KeepAll(store, ids) == store

withoutIds(store, ids) ==
    LET Stays(t) == t.id \notin ids
    IN  SelectSeq(store, Stays)

withIdsIn(store, ids) ==
    LET Goes(t) == t.id \in ids
    IN  SelectSeq(store, Goes)

DeletedItems(txs, at) ==
    LET Wrap(tx) == [tx |-> tx, deletedAt |-> at]
    IN  MapSeq(Wrap, txs)

\* a restore that puts the record back whatever the store holds
restoreInto_Always(store, tx) == SortOutcomes(<<tx>> \o store)

\* handleRestoreTransaction, the transactions updater
restoreInto(store, tx) ==
    LET exists == \E i \in 1..Len(store) :
                      /\ store[i].name = tx.name
                      /\ store[i].date = tx.date
                      /\ store[i].amount = tx.amount
    IN  SortOutcomes(IF exists THEN store ELSE <<tx>> \o store)

----------------------------------------------------------------------------
(* Trash: the 3-day window *)

TrashDays == 3      \* 3 * 24 * 60 * 60 * 1000 ms

prune(items, at) ==
    LET Fresh(it) == at - it.deletedAt < TrashDays
    IN  SelectSeq(items, Fresh)

RECURSIVE SortTrash(_)
\* .sort((a, b) => new Date(b.deletedAt).getTime() - new Date(a.deletedAt).getTime())
SortTrash(items) ==
    IF items = <<>> THEN <<>>
    ELSE LET ats == {items[i].deletedAt : i \in 1..Len(items)}
             latest == CHOOSE m \in ats : \A n \in ats : n <= m
             IsLatest(it) == it.deletedAt = latest
             IsEarlier(it) == it.deletedAt # latest
         IN  SelectSeq(items, IsLatest) \o SortTrash(SelectSeq(items, IsEarlier))

\* the initial state of trash: read, prune, sort
loadTrash(saved, at) == SortTrash(prune(saved, at))

----------------------------------------------------------------------------
(* TransactionFormModal: the amount keypad *)

\* A string is the sequence of its characters. A number of the keypad is an
\* integer count of units of 1/Scale: every decimal a buffer of MaxLen
\* characters can hold is exact in it.
Scale == 10 ^ MaxLen

Digits == {"0", "1", "2", "3", "4", "5", "6", "7", "8", "9"}

Operators == {"+", "-"}

DigitValue(c) ==
    CASE c = "0" -> 0 [] c = "1" -> 1 [] c = "2" -> 2 [] c = "3" -> 3 [] c = "4" -> 4
      [] c = "5" -> 5 [] c = "6" -> 6 [] c = "7" -> 7 [] c = "8" -> 8 [] c = "9" -> 9

DigitChar(n) == CHOOSE c \in Digits : DigitValue(c) = n

RECURSIVE IntValue(_)
\* the value of a run of digits
IntValue(digits) ==
    IF digits = <<>> THEN 0
    ELSE 10 * IntValue(SubSeq(digits, 1, Len(digits) - 1))
         + DigitValue(digits[Len(digits)])

RECURSIVE IntDigits(_)
\* the decimal digits of a natural number
IntDigits(n) ==
    IF n < 10 THEN <<DigitChar(n)>>
    ELSE IntDigits(n \div 10) \o <<DigitChar(n % 10)>>

\* s.replace(/[^0-9+\-.]/g, '')
clean(s) ==
    LET Kept(c) == c \in Digits \cup Operators \cup {"."}
    IN  SelectSeq(s, Kept)

RECURSIVE collapseOperators(_)
\* clean.replace(/[+\-]{2,}/g, m => m[m.length - 1]): of a run of operators
\* the last one stays
collapseOperators(s) ==
    IF Len(s) < 2 THEN s
    ELSE IF s[1] \in Operators /\ s[2] \in Operators
         THEN collapseOperators(Tail(s))
         ELSE <<s[1]>> \o collapseOperators(Tail(s))

\* parseFloat of digits with at most one dot: the digits before the dot and
\* the digits after it; NaN when there is no digit
parseFloat(current) ==
    LET dots == {i \in 1..Len(current) : current[i] = "."}
        dot == IF dots = {} THEN Len(current) + 1
               ELSE CHOOSE i \in dots : \A j \in dots : i <= j
        whole == SubSeq(current, 1, dot - 1)
        frac == SubSeq(current, dot + 1, Len(current))
    IN  IF whole = <<>> /\ frac = <<>> THEN NaN
        ELSE IntValue(whole) * Scale + (IntValue(frac) * Scale) \div (10 ^ Len(frac))

\* flush: it returns before it empties current when current is '' or '.'
flush(st) ==
    IF st.current = <<>> \/ st.current = <<".">> THEN st
    ELSE LET num == parseFloat(st.current)
         IN  [st EXCEPT !.total = IF num # NaN THEN @ + st.sign * num ELSE @,
                        !.current = <<>>]

RECURSIVE scan(_, _, _)
\* the loop of evalExpression from index i on
scan(text, i, st) ==
    IF i > Len(text) THEN flush(st)
    ELSE LET ch == text[i]
         IN  IF ch \in Operators
             THEN scan(text, i + 1,
                       [flush(st) EXCEPT !.sign = IF ch = "+" THEN 1 ELSE 0 - 1])
             ELSE IF ch = "." /\ \E j \in 1..Len(st.current) : st.current[j] = "."
                  THEN scan(text, i + 1, st)
                  ELSE scan(text, i + 1, [st EXCEPT !.current = @ \o <<ch>>])

evalExpression(s) ==
    IF s = <<>> THEN 0
    ELSE IF clean(s) = <<>> THEN 0
    ELSE LET total == scan(collapseOperators(clean(s)), 1,
                           [total |-> 0, current |-> <<>>, sign |-> 1]).total
         IN  IF IsFinite(total) THEN total ELSE 0

\* Math.round(v * 100), in hundredths: the nearer hundredth; at a tie of the
\* decimals the double v * 100 may lie on either side of the half
roundHundredths(v) ==
    LET unit == Scale \div 100
        q == v \div unit
        r == v % unit
    IN  IF 2 * r < unit THEN {q}
        ELSE IF 2 * r > unit THEN {q + 1}
        ELSE {q, q + 1}

\* (h / 100).toString()
hundredthsToString(h) ==
    LET a == IF h < 0 THEN 0 - h ELSE h
        cents == a % 100
        tail == IF cents = 0 THEN <<>>
                ELSE IF cents % 10 = 0 THEN <<".", DigitChar(cents \div 10)>>
                ELSE <<".", DigitChar(cents \div 10), DigitChar(cents % 10)>>
    IN  (IF h < 0 THEN <<"-">> ELSE <<>>) \o IntDigits(a \div 100) \o tail

\* s.split(/[+\-]/).pop()
lastSeg(s) ==
    LET found == {i \in 1..Len(s) : s[i] \in Operators}
        last == IF found = {} THEN 0 ELSE CHOOSE i \in found : \A j \in found : i >= j
    IN  SubSeq(s, last + 1, Len(s))

RECURSIVE dropTrailingOperators(_)
\* s.replace(/[+\-]+$/, '')
dropTrailingOperators(s) ==
    IF s # <<>> /\ s[Len(s)] \in Operators
    THEN dropTrailingOperators(SubSeq(s, 1, Len(s) - 1))
    ELSE s

\* the digits above which onKey appends no digit
DigitLimit == 12

\* onKey's updater: the buffers the key k may leave
onKey(prev, k) ==
    LET s == IF prev = <<>> THEN <<"0">> ELSE prev
    IN  IF k = "back"
        THEN {IF Len(s) > 1 THEN SubSeq(s, 1, Len(s) - 1) ELSE <<"0">>}
        ELSE IF k = "."
        THEN IF \E j \in 1..Len(lastSeg(s)) : lastSeg(s)[j] = "." THEN {s}
             ELSE IF s[Len(s)] = "." THEN {s} ELSE {s \o <<".">>}
        ELSE IF k \in Operators
        THEN IF s[Len(s)] \in Operators THEN {dropTrailingOperators(s) \o <<k>>}
             ELSE {s \o <<k>>}
        ELSE IF k = "="
        THEN {hundredthsToString(h) : h \in roundHundredths(evalExpression(s))}
        ELSE IF k \in Digits
        THEN IF s = <<"0">> THEN {<<k>>}
             ELSE IF Len(s) > DigitLimit THEN {s}
             ELSE {s \o <<k>>}
        ELSE {s}

\* parsedAmount: the amount the form shows and saves
parsedAmount == evalExpression(amountStr)

----------------------------------------------------------------------------
(* Inputs *)

Num(v) == [t |-> "number", v |-> v]

Text(v) == [t |-> "string", v |-> v]

Item(name, date, amount, category) ==
    [name |-> name, date |-> date, amount |-> amount, category |-> category]

\* batches of at most two candidates
BatchesOf(items) ==
    {<<>>} \cup {<<i>> : i \in items} \cup {<<i, j>> : i \in items, j \in items}

\* the candidates a file or an extraction answer may hold
Plain == Item(<<"a">>, <<"D1">>, Num(1000), "Other")

\* differs from Plain in the amount alone: 10.01 against 10
Cent == Item(<<"a">>, <<"D1">>, Num(1001), "Other")

\* the negative of Plain
Negative == Item(<<"a">>, <<"D1">>, Num(-1000), "Other")

\* two candidates whose name and date hold a vertical bar
BarName == Item(<<"a", "|", "x">>, <<"x">>, Num(1000), "Other")

BarDate == Item(<<"a">>, <<"x", "|", "x">>, Num(1000), "Other")

\* amount zero
Zero == Item(<<"a">>, <<"D3">>, Num(0), "Other")

\* a blank name, a text amount and no known category
Blank == Item(<<" ">>, <<"D3">>, Text(1000), "bogus")

Items == {Plain, Cent, Negative, BarName, BarDate, Zero, Blank}

Batches ==
    {<<>>} \cup {<<i>> : i \in Items}
           \cup {<<Plain, Plain>>, <<Plain, Cent>>, <<Negative, Plain>>,
                 <<Zero, Plain>>, <<BarName, BarDate>>}

\* the well-formed candidates used where the whole store is exercised
StoreItems ==
    { Item(<<"a">>, <<"D1">>, Num(1000), "Other"),
      Item(<<"a">>, <<"D2", ":00">>, Num(-1000), "Other") }

StoreBatches == BatchesOf(StoreItems)

\* candidates that differ in what the matchers find in the name and in the
\* category they are given: missing ("undefined"), outside the enumeration
\* ("bogus"), a member of the enumeration that CATEGORIES lacks, or valid
ClassItems ==
    { Item(<<"pharmacy", "market", "mall">>, <<"D1">>, Num(1000), "undefined"),
      Item(<<"sogo", "mall">>, <<"D1">>, Num(1000), "Other"),
      Item(<<"market", "mall">>, <<"D1">>, Num(1000), "Other"),
      Item(<<"lawson">>, <<"D1">>, Num(1000), "Transport"),
      Item(<<"mall">>, <<"D1">>, Num(1000), "bogus"),
      Item(<<"a">>, <<"D1">>, Num(1000), "Other"),
      Item(<<"b">>, <<"D1">>, Num(1000), "bogus"),
      Item(<<"c">>, <<"D1">>, Num(1000), "Education"),
      Item(<<>>, <<"D1">>, Num(1000), "Other") }

ClassBatches == {<<i>> : i \in ClassItems}

\* what the form holds when save is attempted: the name and date typed, the
\* amount evalExpression found in the amount text
FormData ==
    [name : {<<"a">>, <<" ">>}, date : {<<"D1">>, <<"D3">>, <<>>},
     amount : {1000, 0, -500}, category : {"Other"}]

\* what a previous session may have left in localStorage['trash']
Saved(id, date, at) ==
    [tx |-> [id |-> id, name |-> <<"a">>, date |-> date, amount |-> 1000,
             category |-> "Other", addedAt |-> TRUE],
     deletedAt |-> at]

SavedTrashes ==
    { <<Saved(101, <<"D2">>, 1), Saved(100, <<"D1">>, 0)>> }

StartDay == 3

Ids == 1..MaxId

IdsOf(list) == {list[i].id : i \in 1..Len(list)}

\* the record of the last operation: its kind, the batch it was given, the ids
\* it added, the trash item it restored, whether the operation before was of
\* the same kind on the same batch, and how many ids that one added
NoOp == [kind |-> "none", batch |-> <<>>, added |-> {}, restored |-> <<>>,
         sameAsLast |-> FALSE, lastAdded |-> 0,
         shown |-> [success |-> FALSE, errors |-> 0]]

\* BillUploader.handleSubmit on one file, after the analysis settled: the
\* toast when onAddTransactions returned records, the error box when the
\* analysis was rejected
uploaderShows(data, added) ==
    [success |-> Len(added) > 0,
     errors |-> IF analyzeThrows(data) THEN 1 ELSE 0]

\* SettingsPanel.handleFileChange on an array: onImport returns nothing, the
\* message is set and the error cleared
settingsShows(items) == [success |-> TRUE, errors |-> 0]

\* what the panel of the operation shows when it ends
Shown(kind, batch, added) ==
    CASE kind = "extract" -> uploaderShows(batch, added)
      [] kind = "import" -> settingsShows(batch)
      [] OTHER -> [success |-> FALSE, errors |-> 0]

\* the run has room for one more operation
Room == ops < MaxOps

\* the operation is recorded
DidOp(kind, batch, added, restored) ==
    /\ ops' = ops + 1
    /\ op' = [kind |-> kind, batch |-> batch, added |-> IdsOf(added),
              restored |-> restored,
              sameAsLast |-> (op.kind = kind /\ op.batch = batch),
              lastAdded |-> Cardinality(op.added),
              shown |-> Shown(kind, batch, added)]
    /\ UNCHANGED <<lsTransactions, row, car, amountStr>>

\* an operation that is no end of a submission of the uploader
Did(kind, batch, added, restored) ==
    /\ DidOp(kind, batch, added, restored)
    /\ UNCHANGED <<upload, listView>>

----------------------------------------------------------------------------
(* SwipeToDelete: one row *)

\* the null of a ref
Null == -1

Clamp(v, lo, hi) == IF v < lo THEN lo ELSE IF v > hi THEN hi ELSE v

\* the pointers of the device: the mouse and two fingers
Pointers == {1, 2, 3}

PointerType(p) == IF p = 1 THEN "mouse" ELSE "touch"

IsTouchOrPen(p) == PointerType(p) = "touch" \/ PointerType(p) = "pen"

\* clientX of the events
Xs == {50, 51, 94, 100, 150}

\* getBoundingClientRect().width of the row
Widths == {100}

\* the row after mount
RowInit ==
    [mounted |-> TRUE, startX |-> Null, baseX |-> 0, dx |-> 0, dxRef |-> 0,
     anim |-> FALSE, committing |-> FALSE, width |-> 0, moved |-> FALSE,
     activePointerId |-> Null, commitTimerRef |-> "null", commitTimers |-> 0,
     animTimers |-> 0, calls |-> 0, gestureMoved |-> FALSE]

\* snapTo(target): the offset animates to target, a 160 ms timer ends the animation
snapTo(r, target) ==
    [r EXCEPT !.anim = TRUE, !.dx = target, !.dxRef = target,
              !.animTimers = r.animTimers + 1]

\* a commit that schedules no deletion
commitDelete_NoTimer(r) ==
    [r EXCEPT !.committing = TRUE, !.anim = TRUE, !.dx = 0 - r.width,
              !.dxRef = 0 - r.width]

\* onPointerUp, the branch revealed >= threshold
commitDelete(r) ==
    [r EXCEPT !.committing = TRUE, !.anim = TRUE, !.dx = 0 - r.width,
              !.dxRef = 0 - r.width, !.commitTimerRef = "pending",
              !.commitTimers = r.commitTimers + 1]

onPointerDown(r, p, x, w) ==
    IF ~IsTouchOrPen(p) THEN r
    ELSE IF r.committing THEN r
    ELSE [r EXCEPT !.activePointerId = p, !.startX = x, !.baseX = r.dxRef,
                   !.width = w, !.anim = FALSE, !.committing = FALSE,
                   !.moved = FALSE]

onPointerMove(r, p, x) ==
    IF ~IsTouchOrPen(p) THEN r
    ELSE IF r.startX = Null THEN r
    ELSE IF r.activePointerId # p THEN r
    ELSE LET delta == x - r.startX
             next == Clamp(r.baseX + delta, 0 - r.width, 0)
         IN  [r EXCEPT !.moved = r.moved \/ Abs(delta) > 6,
                       !.dx = next, !.dxRef = next]

\* revealed >= threshold, the threshold being half the width
reachesThreshold(revealed, width) == 2 * revealed >= width

onPointerUp(r, p, x) ==
    IF ~IsTouchOrPen(p) THEN r
    ELSE IF r.activePointerId # p THEN r
    ELSE LET released == [r EXCEPT !.startX = Null, !.activePointerId = Null]
             delta == x - r.startX
             revealed == Abs(r.baseX + delta)
         IN  IF r.startX = Null THEN released
             ELSE IF reachesThreshold(revealed, r.width) THEN commitDelete(released)
             ELSE snapTo([released EXCEPT !.committing = FALSE], 0)

\* the body shared by onPointerCancel and onLostPointerCapture
release(r, p) ==
    IF r.activePointerId # p THEN r
    ELSE LET released == [r EXCEPT !.startX = Null, !.activePointerId = Null]
         IN  IF ~r.committing THEN snapTo(released, 0) ELSE released

onPointerCancel(r, p) == IF ~IsTouchOrPen(p) THEN r ELSE release(r, p)

onLostPointerCapture(r, p) == release(r, p)

onClickCapture(r) == IF r.moved THEN [r EXCEPT !.moved = FALSE] ELSE r

----------------------------------------------------------------------------
(* CategoryChart: the month carousel *)

\* monthOptions: the months of the select, sorted and reversed
monthOptions == <<7, 5, 3, 2>>

Months == {monthOptions[i] : i \in 1..Len(monthOptions)}

\* new Date().toISOString().slice(0, 7): this month, always in the list
thisMonth == monthOptions[1]

\* the months that hold no transaction: this month alone
EmptyMonths == {thisMonth}

\* monthOptions.indexOf(month), counted from 1; 0 stands for -1
indexOf(month) ==
    IF month \in Months
    THEN CHOOSE i \in 1..Len(monthOptions) : monthOptions[i] = month
    ELSE 0

canPrev(month) == indexOf(month) # 0 /\ indexOf(month) < Len(monthOptions)

canNext(month) == indexOf(month) # 0 /\ indexOf(month) > 1

\* the month gotoPrev leaves, called where month was the current one
gotoPrev(month) == IF canPrev(month) THEN monthOptions[indexOf(month) + 1] ELSE month

gotoNext(month) == IF canNext(month) THEN monthOptions[indexOf(month) - 1] ELSE month

\* clientX of the events on the chart
CarXs == {119, 120, 139, 140, 200, 261}

\* getBoundingClientRect().width of the chart
CarWidths == {100, 400}

CarInit ==
    [mounted |-> TRUE, currentMonth |-> thisMonth,
     startX |-> Null, width |-> 0, dragX |-> 0, raf |-> FALSE,
     outTimer |-> "null", closureMonth |-> thisMonth, slideRaf |-> "null",
     inTimer |-> FALSE, animOffTimer |-> FALSE, activePointerId |-> Null,
     finishing |-> FALSE, dragging |-> FALSE, animating |-> FALSE,
     x |-> 0, transition |-> FALSE]

\* chartData.length > 0: the drag surface is rendered
surface(c) == c.mounted /\ c.currentMonth \notin EmptyMonths

\* applyTransform: nothing without the element
applyTransform(c, x, withTransition) ==
    IF surface(c) THEN [c EXCEPT !.x = x, !.transition = withTransition] ELSE c

\* setCurrentMonth, and the render after it: a surface that appears or goes
\* carries no inline transform
setCurrentMonth(c, month) ==
    LET d == [c EXCEPT !.currentMonth = month]
    IN  IF surface(d) = surface(c) THEN d
        ELSE [d EXCEPT !.x = 0, !.transition = FALSE]

clearTimers(c) ==
    [c EXCEPT !.raf = FALSE, !.outTimer = "null", !.inTimer = FALSE,
              !.animOffTimer = FALSE]

\* a pointer-down that starts a drag whatever is in flight
carPointerDown_Unguarded(c, p, x, w) ==
    IF ~IsTouchOrPen(p) THEN c
    ELSE applyTransform(
             [clearTimers(c) EXCEPT !.activePointerId = p, !.startX = x,
                                    !.width = w, !.dragging = TRUE,
                                    !.animating = FALSE, !.dragX = 0],
             0, FALSE)

carPointerDown(c, p, x, w) ==
    IF ~IsTouchOrPen(p) THEN c
    ELSE IF c.animating \/ c.finishing THEN c
    ELSE IF c.activePointerId # Null THEN c
    ELSE applyTransform(
             [clearTimers(c) EXCEPT !.activePointerId = p, !.startX = x,
                                    !.width = w, !.dragging = TRUE,
                                    !.animating = FALSE, !.dragX = 0],
             0, FALSE)

carPointerMove(c, p, x) ==
    IF c.startX = Null THEN c
    ELSE IF c.activePointerId # p THEN c
    ELSE [c EXCEPT !.dragX = Clamp(x - c.startX, 0 - c.width, c.width),
                   !.raf = TRUE]

\* 5 * Math.max(60, w * 0.2)
threshold5(w) == IF 300 > w THEN 300 ELSE w

commitLeft(x, w) == 5 * x < 0 - threshold5(w)

\* a bound that is met already at the threshold
commitRight_AtThreshold(x, w) == 5 * x >= threshold5(w)

commitRight(x, w) == 5 * x > threshold5(w)

finishDrag(c, commit, direction) ==
    IF c.finishing THEN c
    ELSE LET f == [c EXCEPT !.finishing = TRUE, !.startX = Null,
                            !.animating = TRUE]
         IN  IF commit /\ (\/ (direction = "left" /\ canNext(c.currentMonth))
                           \/ (direction = "right" /\ canPrev(c.currentMonth)))
             THEN applyTransform(
                      [f EXCEPT !.outTimer = direction,
                                !.closureMonth = c.currentMonth],
                      IF direction = "left" THEN 0 - c.width ELSE c.width, TRUE)
             ELSE applyTransform([f EXCEPT !.outTimer = "snap"], 0, TRUE)

carPointerUp(c, p) ==
    IF c.startX = Null THEN c
    ELSE IF c.activePointerId # p THEN c
    ELSE LET left == commitLeft(c.dragX, c.width)
             right == commitRight(c.dragX, c.width)
         IN  finishDrag(c, left \/ right,
                        IF left THEN "left" ELSE IF right THEN "right" ELSE "null")

\* onPointerCancel and onLostPointerCapture
carRelease(c, p) ==
    IF c.activePointerId # p THEN c ELSE finishDrag(c, FALSE, "null")

\* the end of a gesture: the in timer, and the out timer of a snap-back
endGesture(c) ==
    applyTransform([c EXCEPT !.dragging = FALSE, !.finishing = FALSE,
                             !.activePointerId = Null], 0, FALSE)

\* the callback of the out timer
outTimerCallback(c) ==
    IF c.outTimer = "snap"
    THEN [endGesture(c) EXCEPT !.animating = FALSE, !.outTimer = "null"]
    ELSE LET w == c.width
             placed == applyTransform(c, IF c.outTimer = "left" THEN w ELSE 0 - w,
                                      FALSE)
             month == IF c.outTimer = "left" THEN gotoNext(c.closureMonth)
                      ELSE gotoPrev(c.closureMonth)
             moved == IF month = c.closureMonth THEN placed
                      ELSE setCurrentMonth(placed, month)
         IN  [moved EXCEPT !.outTimer = "null", !.slideRaf = "pending"]

\* the callback of the animation frame asked for by the out timer
slideRafCallback(c) ==
    [applyTransform(c, 0, TRUE) EXCEPT !.slideRaf = "null", !.animOffTimer = TRUE,
                                       !.inTimer = TRUE]

----------------------------------------------------------------------------
(* BillUploader: the submission of several files *)

UploadInit ==
    [selectedFiles |-> <<>>, isLoading |-> FALSE, results |-> <<>>,
     transactions |-> <<>>, error |-> <<>>]

FileNames == {"f1", "f2"}

\* what the analysis of one file ends with: the request fails, or the server
\* answers with data
UploadAnswers ==
    {[ok |-> FALSE, data |-> <<>>]}
    \cup {[ok |-> TRUE, data |-> d] :
            d \in {<<>>, <<Blank>>} \cup {<<i>> : i \in StoreItems}}

\* analyzeBillImage: the validity of one item of the answer
analyzeImageValid(item) ==
    /\ item.name # <<>>
    /\ item.date # <<>>
    /\ TypeofNumber(item.amount)
    /\ item.category \in CATEGORIES

\* analyzeBillImage pushes the item as it is
analyzeImageItem(item) ==
    [name |-> item.name, date |-> item.date,
     amount |-> Number(item.amount), category |-> item.category]

\* analyzeBillImage: validTransactions
analyzeBillImage(data) == MapSeq(analyzeImageItem, SelectSeq(data, analyzeImageValid))

analyzeImageThrows(data) == Len(analyzeBillImage(data)) = 0 /\ Len(data) > 0

\* the settled promise of one file: analyzeBillImage throws on a failed
\* request and on data without a valid item
settle(answer) ==
    IF ~answer.ok \/ analyzeImageThrows(answer.data)
    THEN [status |-> "rejected", value |-> <<>>]
    ELSE [status |-> "fulfilled", value |-> analyzeBillImage(answer.data)]

RECURSIVE successfulTransactions(_)
\* results.forEach: the values of the fulfilled results, in the order of the files
successfulTransactions(results) ==
    IF results = <<>> THEN <<>>
    ELSE (IF Head(results).status = "fulfilled" THEN Head(results).value ELSE <<>>)
         \o successfulTransactions(Tail(results))

\* a submission that reports no failed file
errors_None(files, results) == <<>>

RECURSIVE errors(_, _)
\* results.forEach: one line for every rejected result, with the name of its file
errors(files, results) ==
    IF results = <<>> THEN <<>>
    ELSE (IF Head(results).status = "rejected" THEN <<Head(files)>> ELSE <<>>)
         \o errors(Tail(files), Tail(results))

----------------------------------------------------------------------------
(* TransactionList: the search filter and the multi-select mode *)

ListInit == [query |-> "", selectMode |-> FALSE, selectedIds |-> {}]

\* what is typed into the search box, trimmed and in lower case: nothing, a
\* letter of a name, a date
Queries == {"", "a", "D2"}

\* filtered: the records of which the name, the category, the date or the
\* amount includes q; all records when q is empty
filtered(store, q) ==
    LET Includes(t) == \/ Contains(t.name, {q})
                       \/ Contains(<<t.category>>, {q})
                       \/ Contains(t.date, {q})
                       \/ Contains(<<NumToString(t.amount)>>, {q})
    IN  IF q = "" THEN store ELSE SelectSeq(store, Includes)

allVisibleIds(store, q) == IdsOf(filtered(store, q))

toggleOne(l, id) ==
    [l EXCEPT !.selectedIds = IF id \in @ THEN @ \ {id} ELSE @ \cup {id}]

toggleAll(l, visible) ==
    [l EXCEPT !.selectedIds =
        IF Cardinality(@) = Cardinality(visible) THEN {} ELSE visible]

exitSelectMode(l) == [l EXCEPT !.selectMode = FALSE, !.selectedIds = {}]

----------------------------------------------------------------------------
(* The trash effect: after every change of trash, prune and persist *)

TrashEffect(items) ==
    /\ trash' = prune(items, now)
    /\ lsTrash' = prune(items, now)

----------------------------------------------------------------------------
(* Actions *)

Init ==
    /\ transactions = <<>>
    /\ now = StartDay
    /\ \E saved \in SavedTrashes :
          /\ trash = loadTrash(saved, now)
          /\ lsTrash = loadTrash(saved, now)
    /\ nextId = 1
    /\ ops = 0
    /\ op = NoOp
    /\ row = RowInit
    /\ car = CarInit
    /\ amountStr = <<"0">>
    /\ lsTransactions = <<>>
    /\ upload = UploadInit
    /\ listView = ListInit

\* BillUploader.handleSubmit on one file: analyzeBill, then onAddTransactions
ExtractAdd(data) ==
    LET valid == analyzeBill(data)
        res == handleAddTransactions(transactions, valid, nextId)
    IN  /\ Room
        /\ nextId + Len(res.added) - 1 <= MaxId
        /\ IF Len(valid) > 0
           THEN /\ \E list \in res.lists : transactions' = list
                /\ nextId' = nextId + Len(res.added)
           ELSE UNCHANGED <<transactions, nextId>>
        /\ Did("extract", data, res.added, <<>>)
        /\ UNCHANGED <<trash, lsTrash, now>>

\* SettingsPanel.handleFileChange: onImport(json)
Import(items) ==
    LET res == handleImportTransactions(transactions, items, nextId)
    IN  /\ Room
        /\ nextId + Len(res.added) - 1 <= MaxId
        /\ \E list \in res.lists : transactions' = list
        /\ nextId' = nextId + Len(res.added)
        /\ Did("import", items, res.added, <<>>)
        /\ UNCHANGED <<trash, lsTrash, now>>

\* the form's save of a new record
SaveNew(data) ==
    /\ Room
    /\ validate(data)
    /\ nextId <= MaxId
    /\ \E list \in saveNew(transactions, data, nextId) : transactions' = list
    /\ nextId' = nextId + 1
    /\ Did("add", <<>>, <<[id |-> nextId]>>, <<>>)
    /\ UNCHANGED <<trash, lsTrash, now>>

\* the form's save of the record being edited
SaveEdit(id, data) ==
    /\ Room
    /\ validate(data)
    /\ id \in IdsOf(transactions)
    /\ transactions' = saveEdit(transactions, editPayload(data, id))
    /\ Did("edit", <<>>, <<>>, <<>>)
    /\ UNCHANGED <<trash, lsTrash, nextId, now>>

\* handleBulkChangeCategory
BulkChangeCategory(ids, category) ==
    /\ Room
    /\ ids # {}
    /\ transactions' = bulkChangeCategory(transactions, ids, category)
    /\ Did("bulkCategory", <<>>, <<>>, <<>>)
    /\ UNCHANGED <<trash, lsTrash, nextId, now>>

\* handleDeleteTransaction
Delete(id) ==
    /\ Room
    /\ transactions' = withoutIds(transactions, {id})
    /\ IF withIdsIn(transactions, {id}) # <<>>
       THEN TrashEffect(DeletedItems(withIdsIn(transactions, {id}), now) \o trash)
       ELSE UNCHANGED <<trash, lsTrash>>
    /\ Did("delete", <<>>, <<>>, <<>>)
    /\ UNCHANGED <<nextId, now>>

\* handleBulkDeleteTransactions
BulkDelete(ids) ==
    /\ Room
    /\ ids # {}
    /\ transactions' = withoutIds(transactions, ids)
    /\ IF withIdsIn(transactions, ids) # <<>>
       THEN TrashEffect(DeletedItems(withIdsIn(transactions, ids), now) \o trash)
       ELSE UNCHANGED <<trash, lsTrash>>
    /\ Did("bulkDelete", <<>>, <<>>, <<>>)
    /\ UNCHANGED <<nextId, now>>

\* TrashView's restore button on the i-th item shown
Restore(i) ==
    /\ Room
    /\ i \in 1..Len(trash)
    /\ LET tx == trash[i].tx
           Others(it) == it.tx.id # tx.id
       IN  /\ \E list \in restoreInto(transactions, tx) : transactions' = list
           /\ TrashEffect(SelectSeq(trash, Others))
    /\ Did("restore", <<>>, <<>>, <<trash[i]>>)
    /\ UNCHANGED <<nextId, now>>

\* handleClearAll
ClearAll ==
    /\ Room
    /\ transactions' = <<>>
    /\ Did("clear", <<>>, <<>>, <<>>)
    /\ UNCHANGED <<trash, lsTrash, nextId, now>>

\* a day passes with the app open
Tick ==
    /\ now < StartDay + MaxClock
    /\ now' = now + 1
    /\ UNCHANGED <<transactions, trash, lsTrash, lsTransactions, nextId, ops, op, row, car,
                 amountStr, upload, listView>>

\* an id no record has
AbsentIds == {0}

Next ==
    \/ \E data \in StoreBatches : ExtractAdd(data)
    \/ \E items \in StoreBatches : Import(items)
    \/ \E data \in FormData : SaveNew(data)
    \/ \E id \in IdsOf(transactions), data \in FormData : SaveEdit(id, data)
    \/ \E ids \in SUBSET IdsOf(transactions) : BulkChangeCategory(ids, "Food")
    \/ \E id \in IdsOf(transactions) \cup AbsentIds : Delete(id)
    \/ \E ids \in SUBSET (IdsOf(transactions) \cup AbsentIds) : BulkDelete(ids)
    \/ \E i \in 1..Len(trash) : Restore(i)
    \/ ClearAll
    \/ Tick

Spec == Init /\ [][Next]_vars

\* the pipelines alone, on every candidate of Items
MergeNext ==
    \/ \E data \in Batches : ExtractAdd(data)
    \/ \E items \in Batches : Import(items)
    \/ \E data \in FormData : SaveNew(data)
    \/ ClearAll

MergeSpec == Init /\ [][MergeNext]_vars

\* the extraction and the import of one candidate
ClassifyNext ==
    \/ \E data \in ClassBatches : ops < MaxClassOps /\ ExtractAdd(data)
    \/ \E items \in ClassBatches : ops < MaxClassOps /\ Import(items)

ClassifySpec == Init /\ [][ClassifyNext]_vars

----------------------------------------------------------------------------
(* Actions of the swipe row *)

\* a handler has run on the mounted row and left it as r
Handled(r) ==
    /\ row.mounted
    /\ r.animTimers <= MaxAnimTimers
    /\ row' = r
    /\ UNCHANGED <<storeVars, car, amountStr, upload, listView>>

\* gestureMoved is history, not state of the component: the last gesture on
\* the row has moved its pointer past the movement threshold and no click has
\* come since. A press of any pointer begins a gesture.
PointerDown(p, x, w) ==
    /\ Handled([onPointerDown(row, p, x, w) EXCEPT !.gestureMoved = FALSE])

PointerMove(p, x) ==
    /\ Handled([onPointerMove(row, p, x) EXCEPT
                  !.gestureMoved =
                      \/ @
                      \/ /\ IsTouchOrPen(p)
                         /\ row.startX # Null
                         /\ row.activePointerId = p
                         /\ Abs(x - row.startX) > 6])

PointerUp(p, x) ==
    /\ Handled(onPointerUp(row, p, x))

PointerCancel(p) ==
    /\ Handled(onPointerCancel(row, p))

LostPointerCapture(p) ==
    /\ Handled(onLostPointerCapture(row, p))

Click ==
    /\ Handled([onClickCapture(row) EXCEPT !.gestureMoved = FALSE])

\* the 180 ms timer of a commit: onDelete()
CommitTimerFires ==
    /\ row.commitTimers > 0
    /\ row' = [row EXCEPT !.commitTimers = @ - 1,
                          !.calls = @ + 1,
                          !.commitTimerRef = IF row.commitTimers = 1 /\ @ = "pending"
                                             THEN "stale" ELSE @]
    /\ UNCHANGED <<storeVars, car, amountStr, upload, listView>>

\* the 160 ms timer of snapTo: setAnim(false)
AnimTimerFires ==
    /\ row.animTimers > 0
    /\ row' = [row EXCEPT !.animTimers = @ - 1,
                          !.anim = IF row.mounted THEN FALSE ELSE @]
    /\ UNCHANGED <<storeVars, car, amountStr, upload, listView>>

\* the row leaves the tree: the effect's cleanup clears the commit timer
Unmount ==
    /\ row.mounted
    /\ row' = [row EXCEPT !.mounted = FALSE,
                          !.commitTimers = IF row.commitTimerRef = "pending"
                                           THEN @ - 1 ELSE @,
                          !.commitTimerRef = IF @ = "pending" THEN "stale" ELSE @]
    /\ UNCHANGED <<storeVars, car, amountStr, upload, listView>>

SwipeNext ==
    \/ \E p \in Pointers, x \in Xs, w \in Widths : PointerDown(p, x, w)
    \/ \E p \in Pointers, x \in Xs : PointerMove(p, x)
    \/ \E p \in Pointers, x \in Xs : PointerUp(p, x)
    \/ \E p \in Pointers : PointerCancel(p)
    \/ \E p \in Pointers : LostPointerCapture(p)
    \/ Click
    \/ CommitTimerFires
    \/ AnimTimerFires
    \/ Unmount

\* a pending timer of the event loop fires in the end
SwipeSpec == Init /\ [][SwipeNext]_vars /\ WF_vars(CommitTimerFires)

----------------------------------------------------------------------------
(* Actions of the carousel *)

\* a handler of the drag surface has run and left the carousel as c
CarHandled(c) ==
    /\ surface(car)
    /\ car' = c
    /\ UNCHANGED <<storeVars, row, amountStr, upload, listView>>

\* a callback of the event loop has run and left the carousel as c
CarCalled(c) ==
    /\ car' = c
    /\ UNCHANGED <<storeVars, row, amountStr, upload, listView>>

CarPointerDown(p, x, w) ==
    /\ CarHandled(carPointerDown(car, p, x, w))

CarPointerMove(p, x) ==
    /\ CarHandled(carPointerMove(car, p, x))

CarPointerUp(p) ==
    /\ CarHandled(carPointerUp(car, p))

CarPointerCancel(p) ==
    /\ CarHandled(carRelease(car, p))

CarLostPointerCapture(p) ==
    /\ CarHandled(carRelease(car, p))

\* the animation frame asked for by onPointerMove
RafFires ==
    /\ car.raf
    /\ CarCalled(applyTransform([car EXCEPT !.raf = FALSE], car.dragX, FALSE))

OutTimerFires ==
    /\ car.outTimer # "null"
    /\ CarCalled(outTimerCallback(car))

SlideRafFires ==
    /\ car.slideRaf = "pending"
    /\ CarCalled(slideRafCallback(car))

\* 80 ms after the slide-in began
AnimOffTimerFires ==
    /\ car.animOffTimer
    /\ CarCalled([car EXCEPT !.animOffTimer = FALSE,
                             !.animating = IF car.mounted THEN FALSE ELSE @])

\* SLIDE_MS after the slide-in began, the 80 ms timer having fired
InTimerFires ==
    /\ car.inTimer
    /\ ~car.animOffTimer
    /\ CarCalled([endGesture(car) EXCEPT !.inTimer = FALSE])

\* the select's onChange
SelectMonth(month) ==
    /\ car.mounted
    /\ month # car.currentMonth
    /\ CarCalled(setCurrentMonth(car, month))

\* the chart leaves the tree: the effect's cleanup
CarUnmount ==
    /\ car.mounted
    /\ CarCalled([clearTimers(car) EXCEPT !.mounted = FALSE, !.x = 0,
                                          !.transition = FALSE])

CarouselNext ==
    \/ \E p \in Pointers, x \in CarXs, w \in CarWidths : CarPointerDown(p, x, w)
    \/ \E p \in Pointers, x \in CarXs : CarPointerMove(p, x)
    \/ \E p \in Pointers : CarPointerUp(p)
    \/ \E p \in Pointers : CarPointerCancel(p)
    \/ \E p \in Pointers : CarLostPointerCapture(p)
    \/ RafFires
    \/ OutTimerFires
    \/ SlideRafFires
    \/ AnimOffTimerFires
    \/ InTimerFires
    \/ \E month \in Months : SelectMonth(month)
    \/ CarUnmount

CarouselSpec == Init /\ [][CarouselNext]_vars

----------------------------------------------------------------------------
(* Actions of the keypad *)

\* the keys pressed: two of the digits, the dot, the operators, backspace
\* and the action key
Keys == {"3", "5", ".", "+", "-", "back", "="}

\* a press of the key k; the action key is '=' while the buffer holds an
\* operator
OnKey(k) ==
    /\ k = "=" => \E i \in 1..Len(amountStr) : amountStr[i] \in Operators
    /\ \E s \in onKey(amountStr, k) :
          /\ Len(s) > Len(amountStr) => Len(s) <= MaxLen
          /\ amountStr' = s
    /\ UNCHANGED <<storeVars, row, car, upload, listView>>

KeypadNext == \E k \in Keys : OnKey(k)

KeypadSpec == Init /\ [][KeypadNext]_vars

----------------------------------------------------------------------------
(* Actions of the uploader *)

\* addFiles with one valid file; the input is disabled while loading
AddFile(name) ==
    /\ ~upload.isLoading
    /\ Len(upload.selectedFiles) < MaxFiles
    /\ upload' = [upload EXCEPT !.selectedFiles = @ \o <<name>>, !.error = <<>>]
    /\ UNCHANGED <<storeVars, row, car, amountStr, listView>>

\* handleSubmit up to its await: the requests of all files start; the call
\* keeps the onAddTransactions of this render, and with it these transactions
Submit ==
    /\ upload.selectedFiles # <<>>
    /\ ~upload.isLoading
    /\ upload' = [upload EXCEPT
                     !.isLoading = TRUE, !.error = <<>>,
                     !.results = [i \in 1..Len(upload.selectedFiles) |->
                                     [status |-> "pending", value |-> <<>>]],
                     !.transactions = transactions]
    /\ UNCHANGED <<storeVars, row, car, amountStr, listView>>

\* the promise of file i settles; with the last one Promise.allSettled
\* resolves and handleSubmit runs from its await to its end
Settle(i, answer) ==
    /\ upload.isLoading
    /\ i \in 1..Len(upload.results)
    /\ upload.results[i].status = "pending"
    /\ LET results == [upload.results EXCEPT ![i] = settle(answer)]
           successful == successfulTransactions(results)
           res == handleAddTransactionsOf(upload.transactions, transactions,
                                          successful, nextId)
       IN  IF \E j \in 1..Len(results) : results[j].status = "pending"
           THEN /\ upload' = [upload EXCEPT !.results = results]
                /\ UNCHANGED <<storeVars, row, car, amountStr, listView>>
           ELSE /\ Room
                /\ nextId + Len(res.added) - 1 <= MaxId
                /\ IF Len(successful) > 0
                   THEN /\ \E list \in res.lists : transactions' = list
                        /\ nextId' = nextId + Len(res.added)
                   ELSE UNCHANGED <<transactions, nextId>>
                /\ DidOp("upload", successful, res.added, <<>>)
                /\ upload' = [UploadInit EXCEPT
                                 !.error = errors(upload.selectedFiles, results)]
                /\ UNCHANGED <<trash, lsTrash, now, listView>>

UploadNext ==
    \/ \E name \in FileNames : AddFile(name)
    \/ Submit
    \/ \E i \in 1..MaxFiles, answer \in UploadAnswers : Settle(i, answer)
    \/ \E data \in FormData : SaveNew(data)

UploadSpec == Init /\ [][UploadNext]_vars

----------------------------------------------------------------------------
(* Actions of the transaction list *)

\* a handler of the list that leaves the store alone
ListHandled(l) ==
    /\ listView' = l
    /\ UNCHANGED <<storeVars, row, car, amountStr, upload>>

\* the button that enters and leaves the multi-select mode
ToggleSelectMode ==
    ListHandled(IF listView.selectMode THEN exitSelectMode(listView)
                ELSE [listView EXCEPT !.selectMode = TRUE])

\* a click on a row shown, in multi-select mode
ToggleOne(id) ==
    /\ listView.selectMode
    /\ id \in allVisibleIds(transactions, listView.query)
    /\ ListHandled(toggleOne(listView, id))

\* the select-all box of the bulk bar
ToggleAll ==
    /\ listView.selectMode
    /\ ListHandled(toggleAll(listView, allVisibleIds(transactions, listView.query)))

\* the search box
SetQuery(q) ==
    /\ q # listView.query
    /\ ListHandled([listView EXCEPT !.query = q])

\* confirmBulk: a category is picked in the modal of the bulk bar
ConfirmBulk(category) ==
    /\ Room
    /\ listView.selectMode
    /\ listView.selectedIds # {}
    /\ transactions' = bulkChangeCategory(transactions, listView.selectedIds, category)
    /\ DidOp("bulkCategory", <<>>, <<>>, <<>>)
    /\ listView' = exitSelectMode(listView)
    /\ UNCHANGED <<trash, lsTrash, nextId, now, upload>>

\* doBulkDelete: the delete button of the bulk bar
DoBulkDelete ==
    /\ Room
    /\ listView.selectMode
    /\ listView.selectedIds # {}
    /\ transactions' = withoutIds(transactions, listView.selectedIds)
    /\ IF withIdsIn(transactions, listView.selectedIds) # <<>>
       THEN TrashEffect(DeletedItems(withIdsIn(transactions, listView.selectedIds), now)
                        \o trash)
       ELSE UNCHANGED <<trash, lsTrash>>
    /\ DidOp("bulkDelete", <<>>, <<>>, <<>>)
    /\ listView' = exitSelectMode(listView)
    /\ UNCHANGED <<nextId, now, upload>>

ListNext ==
    \/ ToggleSelectMode
    \/ \E id \in IdsOf(transactions) : ToggleOne(id)
    \/ ToggleAll
    \/ \E q \in Queries : SetQuery(q)
    \/ ConfirmBulk("Food")
    \/ DoBulkDelete
    \/ \E data \in StoreBatches : ExtractAdd(data)
    \/ \E id \in allVisibleIds(transactions, listView.query) : Delete(id)

ListSpec == Init /\ [][ListNext]_vars

----------------------------------------------------------------------------
(* Properties of the store *)

SameTriple(s, t) == s.name = t.name /\ s.date = t.date /\ s.amount = t.amount

\* the validated candidates of the last import or extraction
candsOf(o) ==
    IF o.kind = "import" THEN normalized(o.batch)
    ELSE IF o.kind = "extract" THEN analyzeBill(o.batch)
    ELSE <<>>

\* the step is an operation of one of the kinds
StepOf(kinds) == ops' = ops + 1 /\ op'.kind \in kinds

\* C1: after any sequence of operations the collection is sorted by date
\* descending: no record is followed by a record with a strictly later date.
C1_SortedByDateDesc ==
    \A i, j \in 1..Len(transactions) :
        i < j => getTime(transactions[i].date) >= getTime(transactions[j].date)

\* C2: an import or an extraction-add adds no candidate whose triple equals the
\* triple of a record already stored, and adds every valid candidate whose
\* triple differs from the triple of every stored record.
C2_DedupExactlyOnTriple ==
    [][StepOf({"import", "extract"}) =>
          /\ \A i \in 1..Len(transactions') :
                transactions'[i].id \in op'.added =>
                    \A k \in 1..Len(transactions) :
                        ~SameTriple(transactions'[i], transactions[k])
          /\ \A c \in 1..Len(candsOf(op')) :
                (\A k \in 1..Len(transactions) :
                     ~SameTriple(candsOf(op')[c], transactions[k]))
                => \E i \in 1..Len(transactions') :
                       /\ transactions'[i].id \in op'.added
                       /\ SameTriple(transactions'[i], candsOf(op')[c])]_vars

\* C3: importing the same batch a second time in a row adds no record and
\* leaves the store as the first import left it.
C3_SecondImportAddsNothing ==
    [][(StepOf({"import"}) /\ op.kind = "import" /\ op'.batch = op.batch) =>
          op'.added = {} /\ transactions' = transactions]_vars

\* a batch was imported twice in a row, and the first import added records
C3_Witness ==
    /\ op.kind = "import"
    /\ op.sameAsLast
    /\ op.lastAdded > 0
    /\ op.added = {}

\* C4: after an import or an extraction-add no two records of the store have
\* equal triples when at least one of the two was added by that operation.
C4_NoCollisionFromOneOperation ==
    op.kind \in {"import", "extract"} =>
        \A i, j \in 1..Len(transactions) :
            (i # j /\ transactions[i].id \in op.added) =>
                ~SameTriple(transactions[i], transactions[j])

\* C5: every record that entered the store by extraction, by import or by the
\* form has an amount strictly greater than zero.
C5_AmountsPositive ==
    \A i \in 1..Len(transactions) :
        IsFinite(transactions[i].amount) /\ transactions[i].amount > 0

\* C10: no item shown in the trash view is 3 days old or older.
C10_NoExpiredItemShown ==
    \A i \in 1..Len(trash) : now - trash[i].deletedAt < TrashDays

----------------------------------------------------------------------------
(* Properties of the swipe row *)

\* pointer p drives the row
Tracked(p) == IsTouchOrPen(p) /\ row.activePointerId = p /\ row.startX # Null

\* the distance revealed with the pointer released at x: the offset the row
\* shows there, clamped into [-width, 0]
revealedAt(r, x) == 0 - Clamp(r.baseX + (x - r.startX), 0 - r.width, 0)

\* C6: the pointer-up of the tracked pointer commits if and only if the
\* revealed distance is at least half the width: then the offset goes to
\* -width and the deletion is scheduled; otherwise the offset snaps back to 0
\* and no deletion is scheduled.
C6_CommitIffHalfRevealed ==
    [][\A p \in Pointers, x \in Xs :
          (Tracked(p) /\ PointerUp(p, x)) =>
              IF 2 * revealedAt(row, x) >= row.width
              THEN /\ row'.committing
                   /\ row'.dx = 0 - row.width
                   /\ row'.commitTimers = row.commitTimers + 1
              ELSE /\ ~row'.committing
                   /\ row'.dx = 0
                   /\ row'.commitTimers = row.commitTimers]_vars

\* C7 as stated: once the row has committed the deletion callback is invoked
\* in the end, and at no time more than once, whatever follows.
C7_DeletedExactlyOnce ==
    /\ [](row.calls <= 1)
    /\ [](row.committing => <>(row.calls = 1))

\* C7: once the row has committed the deletion callback is invoked in the end
\* unless the row is unmounted first, and at no time more than once.
C7_DeletedOnceUnlessUnmounted ==
    /\ [](row.calls <= 1)
    /\ [](row.committing => <>(row.calls = 1 \/ ~row.mounted))

\* the commit timer of a committed row has fired
C7_Witness == row.committing /\ row.calls = 1

\* C8: while a pointer drives the row, a pointer-down, pointer-move or
\* pointer-up of another pointer changes neither the tracked pointer id, nor
\* the drag origin, nor the offset.
C8_OtherPointerIgnored ==
    [][\A p \in Pointers, x \in Xs, w \in Widths :
          (/\ row.activePointerId # Null
           /\ p # row.activePointerId
           /\ (PointerDown(p, x, w) \/ PointerMove(p, x) \/ PointerUp(p, x)))
          => /\ row'.activePointerId = row.activePointerId
             /\ row'.startX = row.startX
             /\ row'.baseX = row.baseX
             /\ row'.dx = row.dx]_vars

----------------------------------------------------------------------------
(* Properties of the carousel *)

LaterMonths(month) == {n \in Months : n > month}

EarlierMonths(month) == {n \in Months : n < month}

----------------------------------------------------------------------------
(* Properties of restore, delete and ids *)

RecordsOf(list) == {list[k] : k \in 1..Len(list)}

\* C11: a restore puts the record back, with its id, when no stored record has
\* its triple, and adds nothing when one has; either way the store then holds
\* a record with the triple and the trash no longer holds the item.
C11_RestoreAddsOnceOrNever ==
    [][StepOf({"restore"}) => \A i \in 1..Len(trash) :
          Restore(i) =>
              LET tx == trash[i].tx
                  had == \E k \in 1..Len(transactions) :
                             SameTriple(transactions[k], tx)
              IN  /\ had => /\ Len(transactions') = Len(transactions)
                            /\ RecordsOf(transactions') = RecordsOf(transactions)
                  /\ ~had => /\ Len(transactions') = Len(transactions) + 1
                             /\ RecordsOf(transactions') =
                                    RecordsOf(transactions) \cup {tx}
                  /\ \E k \in 1..Len(transactions') :
                         SameTriple(transactions'[k], tx)
                  /\ \A j \in 1..Len(trash') : trash'[j].tx.id # tx.id]_vars

\* an item was restored while the store held a record with its triple: the
\* store holds the triple and not the item's id
C11_Witness ==
    /\ op.kind = "restore"
    /\ \E k \in 1..Len(transactions) :
          SameTriple(transactions[k], op.restored[1].tx)
    /\ \A k \in 1..Len(transactions) :
          transactions[k].id # op.restored[1].tx.id

\* the items that have not expired
Unexpired(items) ==
    LET Fresh(it) == now - it.deletedAt < TrashDays
    IN  SelectSeq(items, Fresh)

\* the step removes the records with an id in ids and nothing else, and puts
\* one item for each of them, deleted now, in front of the items of before
DeleteFrame(ids, before) ==
    LET Stays(t) == t.id \notin ids
        Goes(t) == t.id \in ids
        gone == SelectSeq(transactions, Goes)
    IN  /\ transactions' = SelectSeq(transactions, Stays)
        /\ IF gone = <<>> THEN trash' = trash
           ELSE /\ Len(trash') = Len(gone) + Len(before)
                /\ \A k \in 1..Len(gone) :
                      trash'[k] = [tx |-> gone[k], deletedAt |-> now]
                /\ \A k \in 1..Len(before) : trash'[Len(gone) + k] = before[k]

\* the step is a delete or a bulk delete of the ids
DeletesIds(ids) == BulkDelete(ids) \/ \E id \in ids : ids = {id} /\ Delete(id)

\* C12 as stated: a delete removes exactly the records of the given ids from
\* the store and adds exactly one trash item for each; every other record and
\* every other trash item is unchanged; with no id in the store nothing
\* changes.
C12_DeleteFrame ==
    [][StepOf({"delete", "bulkDelete"}) =>
       \A ids \in SUBSET (IdsOf(transactions) \cup AbsentIds) :
          DeletesIds(ids) => DeleteFrame(ids, trash)]_vars

\* C12: a delete removes exactly the records of the given ids from the store
\* and adds exactly one trash item for each; every other record and every
\* other trash item that has not expired is unchanged, the expired ones are
\* purged; with no id in the store nothing changes.
C12_DeleteFrameButExpired ==
    [][StepOf({"delete", "bulkDelete"}) =>
       \A ids \in SUBSET (IdsOf(transactions) \cup AbsentIds) :
          DeletesIds(ids) => DeleteFrame(ids, Unexpired(trash))]_vars

\* a record was deleted into a trash that held an item and keeps it
C12_Witness ==
    /\ op.kind \in {"delete", "bulkDelete"}
    /\ Len(trash) >= 2
    /\ trash[1].deletedAt = now
    /\ trash[Len(trash)].deletedAt < now

\* the ids of a list, in its order
IdsInOrder(list) == [k \in 1..Len(list) |-> list[k].id]

\* C13: the stored records have pairwise distinct ids in every reachable
\* state; an edit and a bulk category change leave the id of every record as
\* it was, and a record deleted and then restored comes back with its id.
C13_IdsDistinctAndKept ==
    /\ [](\A j, k \in 1..Len(transactions) :
             transactions[j].id = transactions[k].id => j = k)
    /\ [][ /\ StepOf({"edit"}) => \A id \in IdsOf(transactions), data \in FormData :
                 SaveEdit(id, data) => IdsInOrder(transactions') = IdsInOrder(transactions)
           /\ StepOf({"bulkCategory"}) =>
              \A ids \in SUBSET IdsOf(transactions), c \in Category :
                 BulkChangeCategory(ids, c) =>
                     IdsInOrder(transactions') = IdsInOrder(transactions)
           /\ StepOf({"delete"}) => \A id \in IdsOf(transactions) :
                 Delete(id) =>
                     (\E k \in 1..Len(transactions) :
                         /\ transactions[k].id = id
                         /\ trash'[1].tx = transactions[k])
           /\ StepOf({"restore"}) => \A i \in 1..Len(trash) :
                 Restore(i) =>
                     (\A k \in 1..Len(transactions') :
                         \/ \E j \in 1..Len(transactions) :
                               transactions[j] = transactions'[k]
                         \/ transactions'[k] = trash[i].tx)]_vars

\* a record the app added was deleted and then restored, and is stored under
\* the id it was added with
C13_Witness ==
    /\ op.kind = "restore"
    /\ op.restored[1].tx.id \in 1..MaxId
    /\ \E k \in 1..Len(transactions) : transactions[k].id = op.restored[1].tx.id

\* C14: an extraction or an import of a non-empty batch that merges no record
\* shows exactly one error and reports no success.
C14_ErrorWhenNothingMerged ==
    (op.kind \in {"extract", "import"} /\ op.batch # <<>> /\ op.added = {})
        => (op.shown.errors = 1 /\ ~op.shown.success)

----------------------------------------------------------------------------
(* Properties of the categories *)

\* the stored records the last operation added
AddedNow == {k \in 1..Len(transactions) : transactions[k].id \in op.added}

\* C15: an import adds a candidate only if, after normalization, its name is
\* non-empty after trimming, its date is non-empty, its amount is finite and
\* positive and its category is a member of the enumeration.
C15_ImportAddsOnlyValid ==
    op.kind = "import" =>
        \A k \in AddedNow :
            /\ Trim(transactions[k].name) # <<>>
            /\ transactions[k].date # <<>>
            /\ IsFinite(transactions[k].amount)
            /\ transactions[k].amount > 0
            /\ transactions[k].category \in Category

\* a matcher of the classifier fires on the name
Fires(name) ==
    \/ isPharmacy(name)
    \/ isConvenienceStore(name) \/ isSupermarket(name) \/ isDepartmentStore(name)
    \/ isShoppingCenter(name)

\* C16: on the extraction and the import path, every record added has the
\* category of the classifier when a matcher fires on its candidate's name and
\* the candidate's category otherwise; a new candidate on whose name a matcher
\* fires is added whatever category it was given.
C16_OverrideOnBothPaths ==
    [][\A b \in ClassBatches :
          (ExtractAdd(b) \/ Import(b)) =>
              LET fresh == {k \in 1..Len(transactions') :
                               transactions'[k].id \notin IdsOf(transactions)}
              IN  /\ \A k \in fresh :
                        \E j \in 1..Len(b) :
                            /\ b[j].name = transactions'[k].name
                            /\ transactions'[k].category = overrideCategory(b[j])
                  /\ \A j \in 1..Len(b) :
                        (/\ Fires(b[j].name)
                         /\ \A k \in 1..Len(transactions) :
                               transactions[k].name # b[j].name)
                            => \E k \in fresh : transactions'[k].name = b[j].name]_vars

\* the category the priority order gives a candidate
ByPriority(c) ==
    CASE isPharmacy(c.name) -> "Medical"
      [] ~isPharmacy(c.name)
         /\ (isConvenienceStore(c.name) \/ isSupermarket(c.name)
                \/ isDepartmentStore(c.name)) -> "Food"
      [] ~isPharmacy(c.name) /\ ~isConvenienceStore(c.name) /\ ~isSupermarket(c.name)
         /\ ~isDepartmentStore(c.name) /\ isShoppingCenter(c.name) -> "Shopping"
      [] OTHER -> c.category

----------------------------------------------------------------------------
(* Properties of the keypad *)

\* position a of s starts a term: a character that is no operator, at the
\* start of s or behind an operator
StartsTerm(s, a) == s[a] \notin Operators /\ (a = 1 \/ s[a - 1] \in Operators)

\* the term that starts at a: up to the next operator or the end of s
TermFrom(s, a) ==
    LET later == {i \in a..Len(s) : s[i] \in Operators}
        stop == IF later = {} THEN Len(s) + 1
                ELSE CHOOSE i \in later : \A j \in later : i <= j
    IN  SubSeq(s, a, stop - 1)

\* the decimal a term denotes, in units of 1/Scale; 0 when it holds no digit
TermValue(term) ==
    LET dots == {i \in 1..Len(term) : term[i] = "."}
        dot == IF dots = {} THEN Len(term) + 1
               ELSE CHOOSE i \in dots : \A j \in dots : i <= j
        frac == SubSeq(term, dot + 1, Len(term))
    IN  IntValue(SubSeq(term, 1, dot - 1)) * Scale
        + (IntValue(frac) * Scale) \div (10 ^ Len(frac))

RECURSIVE SumOfTerms(_, _)
\* the sum of the terms of s that start at a or later, each with the sign of
\* the operator right before it
SumOfTerms(s, a) ==
    IF a > Len(s) THEN 0
    ELSE (IF StartsTerm(s, a)
          THEN (IF a > 1 /\ s[a - 1] = "-" THEN 0 - 1 ELSE 1)
               * TermValue(TermFrom(s, a))
          ELSE 0)
         + SumOfTerms(s, a + 1)

\* C18: the amount of a buffer is the sum of its decimal terms from left to
\* right, each with the sign of the operator right before it (the last of a run
\* of operators; plus for a first term with no operator before it); a trailing
\* operator adds nothing.
C18_SumOfSignedTerms == parsedAmount = SumOfTerms(amountStr, 1)

\* s without the terms that are a lone dot
WithoutLoneDots(s) ==
    LET Stays(i) == ~(/\ s[i] = "."
                      /\ (i = 1 \/ s[i - 1] \in Operators)
                      /\ (i = Len(s) \/ s[i + 1] \in Operators))
        kept == {i \in 1..Len(s) : Stays(i)}
        Nth(n) == CHOOSE i \in kept : Cardinality({j \in kept : j <= i}) = n
    IN  [n \in 1..Cardinality(kept) |-> s[Nth(n)]]

\* C19: for every buffer the keypad produces, a term that is no number adds
\* nothing and leaves what the other terms add as it is (the amount is that of
\* the buffer without it), and the amount is finite.
C19_LoneDotAddsNothing ==
    /\ parsedAmount = evalExpression(WithoutLoneDots(amountStr))
    /\ IsFinite(parsedAmount)

----------------------------------------------------------------------------
(* Properties of the click on a swipe row *)

\* C20: a click on a swipe row is suppressed exactly when it is the first
\* click after a gesture on the row that moved past the movement threshold: in
\* every state the row would swallow a click (moved is set) exactly when its
\* last gesture has moved that far and no click has come since.
C20_SuppressedIffFirstClickAfterDrag ==
    row.mounted => (row.moved <=> row.gestureMoved)

----------------------------------------------------------------------------
(* Properties of unmounting *)

\* C21: once the swipe row or the carousel is unmounted, no timer callback
\* and no animation-frame callback of it runs.
C21_NoCallbackAfterUnmount ==
    [][ /\ ~row.mounted => ~(CommitTimerFires \/ AnimTimerFires)
        /\ ~car.mounted => ~(\/ RafFires
                             \/ OutTimerFires
                             \/ SlideRafFires
                             \/ AnimOffTimerFires
                             \/ InTimerFires)]_vars

----------------------------------------------------------------------------
(* Properties of persistence *)

\* C23: after every mutation the persisted transactions equal the
\* transactions in memory and the persisted trash equals the trash in memory.
C23_PersistedEqualsMemory ==
    /\ lsTransactions = transactions
    /\ lsTrash = trash

----------------------------------------------------------------------------
(* Properties of the uploader *)

\* the results of a submission when the promise of file i settles with answer
ResultsWith(i, answer) == [upload.results EXCEPT ![i] = settle(answer)]

\* the step ends a submission: the last promise settles
Finishes(i, answer) == Settle(i, answer) /\ StepOf({"upload"})

\* C22: when the last file of a submission settles, the candidates of every
\* fulfilled file are passed to the merge in one call, each rejected file gives
\* exactly one error line with its name, every candidate of a fulfilled file
\* has its triple in the store afterwards whatever failed, and the loading
\* flag and the selected files are cleared.
C22_SubmitSettlesEveryFile ==
    [][\A i \in 1..MaxFiles, answer \in UploadAnswers :
          Finishes(i, answer) =>
             LET results == ResultsWith(i, answer)
                 fulfilled == {j \in 1..Len(results) : results[j].status = "fulfilled"}
                 rejected == {j \in 1..Len(results) : results[j].status = "rejected"}
             IN  /\ \A j \in fulfilled : \A k \in 1..Len(results[j].value) :
                       /\ \E m \in 1..Len(op'.batch) : op'.batch[m] = results[j].value[k]
                       /\ \E m \in 1..Len(transactions') :
                             SameTriple(transactions'[m], results[j].value[k])
                 /\ Len(upload'.error) = Cardinality(rejected)
                 /\ \A j \in rejected :
                       Cardinality({m \in 1..Len(upload'.error) :
                                      upload'.error[m] = upload.selectedFiles[j]})
                       = Cardinality({m \in rejected :
                                      upload.selectedFiles[m] = upload.selectedFiles[j]})
                 /\ ~upload'.isLoading
                 /\ upload'.selectedFiles = <<>>]_vars

\* a submission of two files ended with one file rejected and the candidate of
\* the other file added
C22_Witness ==
    /\ op.kind = "upload"
    /\ Len(upload.error) = 1
    /\ op.added # {}
    /\ ~upload.isLoading

\* C28: the merge of an extraction adds no candidate whose triple equals the
\* triple of a record that is in the store when the merge happens.
C28_DedupAgainstStoreAtMerge ==
    [][StepOf({"upload"}) =>
          \A k \in 1..Len(transactions') :
             transactions'[k].id \in op'.added =>
                ~\E j \in 1..Len(transactions) :
                     SameTriple(transactions[j], transactions'[k])]_vars

----------------------------------------------------------------------------
(* Properties of the validation of categories *)

\* C24: the extraction accepts a candidate with a name, a date and a numeric
\* amount when its final category is one of the nine members of Category, and
\* drops it only when its final category is outside Category.
C24_AcceptsEveryCategory ==
    [][\A b \in ClassBatches :
          ExtractAdd(b) =>
             \A j \in 1..Len(b) :
                (b[j].name # <<>> /\ b[j].date # <<>> /\ TypeofNumber(b[j].amount)) =>
                   /\ overrideCategory(b[j]) \in Category =>
                         /\ op'.shown.errors = 0
                         /\ \E k \in 1..Len(transactions') :
                               transactions'[k].name = b[j].name
                   /\ overrideCategory(b[j]) \notin Category =>
                         /\ op'.shown.errors = 1
                         /\ transactions' = transactions]_vars

----------------------------------------------------------------------------
(* Properties of the gestures of the carousel *)

\* a timer or a frame of a release is pending
InFlight(c) == c.outTimer # "null" \/ c.slideRaf = "pending" \/ c.inTimer

\* C25: a pointer-down starts a drag only when no pointer is tracked, the
\* finishing flag is clear and nothing is animating; a month switch is armed
\* only by the release of a drag, which ends the drag, so that one pointer-down
\* leads to at most one switch; and while the timers of one release are
\* pending no drag is in progress and no second release is armed.
C25_OneSwitchPerPointerDown ==
    [][/\ (car'.startX # Null /\ car'.startX # car.startX) =>
             /\ \E p \in Pointers, x \in CarXs, w \in CarWidths : CarPointerDown(p, x, w)
             /\ car.activePointerId = Null
             /\ ~car.finishing
             /\ ~car.animating
             /\ ~InFlight(car)
       /\ (car'.outTimer # "null" /\ car.outTimer = "null") =>
             /\ car.startX # Null
             /\ ~car.finishing
             /\ ~InFlight(car)
             /\ car'.startX = Null
             /\ car'.finishing
       /\ InFlight(car) => (car.finishing /\ car.startX = Null)
       /\ (OutTimerFires /\ car.outTimer # "snap") =>
             (car'.outTimer = "null" /\ car'.finishing /\ car'.startX = Null)]_vars

\* the slide-in of a month switch is in flight: the drag was released past
\* the threshold, its pointer is still the tracked one and the flag is set, so
\* that every pointer-down is refused
C25_Witness ==
    /\ car.mounted
    /\ car.inTimer
    /\ car.finishing
    /\ car.activePointerId # Null
    /\ Abs(car.dragX) > 60
    /\ car.closureMonth # car.currentMonth

\* no callback of the carousel is pending
Quiet(c) == ~c.raf /\ ~InFlight(c) /\ ~c.animOffTimer

\* C26: once the timers and frames pending after a release, a cancel or a
\* lost capture have run, the mounted carousel is idle: the finishing flag is
\* clear, no pointer is tracked, it is not dragging and the content is centred.
C26_IdleWhenCallbacksHaveRun ==
    (car.mounted /\ car.startX = Null /\ Quiet(car)) =>
        /\ ~car.finishing
        /\ car.activePointerId = Null
        /\ ~car.dragging
        /\ car.x = 0

----------------------------------------------------------------------------
(* Properties of the direction of a swipe *)

\* C27: the release of the tracked pointer to the right of where it went down
\* on a closed row commits no deletion: the row is not committing afterwards
\* and no commit timer is started.
C27_RightwardNeverCommits ==
    [][\A p \in Pointers, x \in Xs :
          (/\ Tracked(p)
           /\ row.baseX = 0
           /\ x > row.startX
           /\ PointerUp(p, x))
          => /\ ~row'.committing
             /\ row'.commitTimers = row.commitTimers]_vars

----------------------------------------------------------------------------
(* Properties of the edit *)

\* C29: an edit through the form keeps the id and the addedAt of the record
\* it edits, leaves every other record as it is, and every record carries an
\* addedAt afterwards.
C29_EditKeepsIdAndAddedAt ==
    [][StepOf({"edit"}) =>
          /\ Len(transactions') = Len(transactions)
          /\ \A k \in 1..Len(transactions) :
                /\ transactions'[k].id = transactions[k].id
                /\ transactions'[k].addedAt = transactions[k].addedAt
                /\ transactions'[k] # transactions[k] =>
                      \E data \in FormData : SaveEdit(transactions[k].id, data)
                /\ transactions'[k].addedAt]_vars

----------------------------------------------------------------------------
(* Properties of the selection *)

\* C30: in every reachable state the selected ids are ids of records shown
\* under the search filter.
C30_SelectionIsVisible ==
    listView.selectedIds \subseteq allVisibleIds(transactions, listView.query)

====
